---- MODULE Spec2Model ----
(***************************************************************************)
(* Model of the MONROE database importer (src/importer/monroe_dbimporter.py)*)
(* parse_files -> schedule_workers (os.walk + ThreadPool) -> handle_file    *)
(* (stat, parse_json, create_batch, session.execute, os.rename).            *)
(*                                                                          *)
(* A path string is a sequence of tokens: "/" is the separator, every other *)
(* token is a piece of a name.  String concatenation is \o, so that         *)
(* processed_dir + basename and os.path.join(in_dir, d) are computed as the *)
(* code computes them.  A name is a sequence of name tokens ("failed"       *)
(* followed by "x.json" is the single name failedx.json).                   *)
(***************************************************************************)
EXTENDS Integers, Sequences, FiniteSets, TLC

\* ------------------------------------------------------------------ bounds
MaxFiles == 2          \* files present in the tree when the program starts
MaxPasses == 2         \* passes of the parse_files loop that are explored
MaxConcurrency == 2    \* largest --concurrency value explored
MaxElapsed == 2        \* longest time a pass takes, in seconds
MaxLines == 3          \* most physical lines of a file given to parse_json
MaxValue == 1          \* numeric fields of an entry range over -MaxValue..MaxValue
MaxVerbosity == 2      \* largest VERBOSITY given to the validator

\* ------------------------------------------------------- path arithmetic
SEP == "/"

\* Names (of files) that fnmatch's '*.json' accepts end in a json token.
JsonTokens == {"x.json", "y.json"}

\* os.path.join(a, b) for a relative b
path_join(a, b) ==
    IF a = <<>> THEN b
    ELSE IF a[Len(a)] = SEP THEN a \o b
    ELSE a \o <<SEP>> \o b

\* index of the last separator of p, 0 when there is none
LastSepIdx(p) ==
    LET S == {i \in 1..Len(p) : p[i] = SEP}
    IN IF S = {} THEN 0 ELSE CHOOSE i \in S : \A j \in S : j <= i

\* os.path.basename(p): what follows the last separator
Basename(p) == SubSeq(p, LastSepIdx(p) + 1, Len(p))

\* The kernel's resolution of a path string: its components, each a name;
\* runs of separators and a trailing separator count for nothing.
RECURSIVE SplitFrom(_, _)
SplitFrom(p, cur) ==
    IF p = <<>> THEN (IF cur = <<>> THEN <<>> ELSE <<cur>>)
    ELSE IF Head(p) = SEP
         THEN (IF cur = <<>> THEN SplitFrom(Tail(p), cur)
               ELSE <<cur>> \o SplitFrom(Tail(p), <<>>))
         ELSE SplitFrom(Tail(p), Append(cur, Head(p)))

Resolve(p) == SplitFrom(p, <<>>)

\* the resolved path c lies inside the directory named by the path string d
Inside(c, d) ==
    LET r == Resolve(d)
    IN /\ Len(c) > Len(r)
       /\ SubSeq(c, 1, Len(r)) = r

\* parent directory and last name of a resolved path
Parent(c) == SubSeq(c, 1, Len(c) - 1)
LeafName(c) == c[Len(c)]

\* fnmatch.fnmatch(name, '*.json')
MatchesJson(name) == name # <<>> /\ name[Len(name)] \in JsonTokens

\* ------------------------------------------------------ command line
\* args.indir: the default "/indir" has no trailing separator
in_dir == <<SEP, "in">>

\* Choices of (args.failed, args.processed); <<>> is "option not given".
ArgChoices ==
    { [failed |-> <<>>, processed |-> <<>>],
      [failed |-> <<SEP, "in", SEP, "failed">>,
       processed |-> <<SEP, "in", SEP, "processed">>],
      [failed |-> <<SEP, "out", SEP, "failed", SEP>>,
       processed |-> <<SEP, "out", SEP, "processed", SEP>>] }

\* parse_special_args: the failed and processed directories
FailedDirOf(args) ==
    IF args.failed # <<>> THEN args.failed
    ELSE in_dir \o <<SEP, "failed", SEP>>

ProcessedDirOf(args) ==
    IF args.processed # <<>> THEN args.processed
    ELSE in_dir \o <<SEP, "processed", SEP>>

\* ------------------------------------------------------ the directory tree
D(names) == [i \in 1..Len(names) |-> <<names[i]>>]

InTreeDirs ==
    { D(<<"in">>), D(<<"in", "a">>), D(<<"in", "a", "failed">>) }

AllDirs ==
    InTreeDirs \cup
    { D(<<"in", "failed">>), D(<<"in", "processed">>),
      D(<<"out">>), D(<<"out", "failed">>), D(<<"out", "processed">>) }

\* Places a file may lie at when the program starts, in a fixed order.
Places ==
    << D(<<"in", "x.json">>),
       D(<<"in", "a", "x.json">>),
       D(<<"in", "a", "failed", "x.json">>),
       D(<<"in", "n.txt">>) >>

FileIds == 1..MaxFiles
Gone == <<>>

\* ------------------------------------------------------ file contents
\* A physical line of a file is one of:
\*   "rec"    a whole JSON object with a DataId naming an existing table
\*   "nodid"  a whole JSON object without the DataId field
\*   "badtbl" a whole JSON object whose DataId names no table of the keyspace
\*   "badping" a whole JSON object with DataId MONROE.EXP.PING and the
\*            SequenceNumber -1
\*   "open"   the first line of an object that continues on the next line
\*   "mid"    a middle line of such an object
\*   "close"  its last line
LineTokens == {"rec", "nodid", "badtbl", "badping", "open", "mid", "close"}

WholeObjects == {"rec", "nodid", "badtbl", "badping"}

PingId == <<"MONROE", ".", "EXP", ".", "PING">>

\* json.loads(buf) succeeds: buf holds exactly one complete JSON value
Decodable(buf) ==
    \/ Len(buf) = 1 /\ buf[1] \in WholeObjects
    \/ /\ Len(buf) >= 2
       /\ buf[1] = "open"
       /\ buf[Len(buf)] = "close"
       /\ \A i \in 2..(Len(buf) - 1) : buf[i] = "mid"

\* json.loads(buf): the decoded record
Decode(buf) ==
    IF buf[1] = "nodid" THEN [v |-> 1]
    ELSE IF buf[1] = "badtbl" THEN [DataId |-> <<"NO", ".", "TABLE">>, v |-> 1]
    ELSE IF buf[1] = "badping"
         THEN [DataId |-> PingId, SequenceNumber |-> -1]
    ELSE [DataId |-> <<"MONROE", ".", "META">>, v |-> 1]

\* parse_json(f).  i is the next line the file iterator yields, jsons the
\* records so far, single the value of each_json_on_single_line ("unbound"
\* before the first iteration of the for loop).  The while loop extends buf
\* with next(f) until it decodes; StopIteration there is the parse error.
RECURSIVE ParseLoop(_, _, _, _, _)
ParseLoop(lines, i, buf, jsons, single) ==
    IF buf = <<>>
    THEN \* head of the for loop
         IF i > Len(lines)
         THEN IF single = "unbound"
              THEN [ok |-> FALSE, jsons |-> <<>>, advisory |-> FALSE]
              ELSE [ok |-> TRUE, jsons |-> jsons, advisory |-> (single = "no")]
         ELSE ParseLoop(lines, i + 1, <<lines[i]>>, jsons, "yes")
    ELSE \* inside while True
         IF Decodable(buf)
         THEN ParseLoop(lines, i, <<>>, Append(jsons, Decode(buf)), single)
         ELSE IF i > Len(lines)
              THEN [ok |-> FALSE, jsons |-> <<>>, advisory |-> FALSE]
              ELSE ParseLoop(lines, i + 1, Append(buf, lines[i]), jsons, "no")

\* a parser that decodes the whole file as one JSON value (json.load(f))
parse_json_WholeFile(lines) ==
    IF lines # <<>> /\ Decodable(lines)
    THEN [ok |-> TRUE, jsons |-> <<Decode(lines)>>, advisory |-> Len(lines) > 1]
    ELSE [ok |-> FALSE, jsons |-> <<>>, advisory |-> FALSE]

parse_json(lines) == ParseLoop(lines, 1, <<>>, <<>>, "unbound")

\* columns.keys(): the fields of the dict in the dict's own order.  The order
\* comes from the hashes of the keys and the size of the dict's table, which
\* the records here do not carry: every order of the keys is possible.
KeysOf(j) ==
    { o \in [1..Cardinality(DOMAIN j) -> DOMAIN j] :
        \A a, b \in 1..Cardinality(DOMAIN j) : a # b => o[a] # o[b] }

\* The key orders of the dicts of json_store, one per record: nothing ties
\* the order of one dict to that of another, not even of an equal one (the
\* same fields written in another order in the text may list otherwise).
RECURSIVE KeyOrders(_)
KeyOrders(json_store) ==
    IF json_store = <<>> THEN { <<>> }
    ELSE LET n == Len(json_store)
         IN { Append(p, o) : p \in KeyOrders(SubSeq(json_store, 1, n - 1)),
                             o \in KeysOf(json_store[n]) }

\* get_cql(j, tablename): the statement "INSERT INTO table (headers) VALUES
\* (%s,...)" with one placeholder per value, and the values; keys is
\* columns.keys(), and columns.values() follows the same order.
get_cql(j, tablename, keys) ==
    [stm |-> [table |-> tablename, headers |-> keys,
              placeholders |-> Len(keys)],
     values |-> [i \in 1..Len(keys) |-> j[keys[i]]]]

\* a table name that keeps the dots of the DataId
TableName_KeepsDots(dataid) == dataid

\* j['DataId'].replace('.', '_')
TableName(dataid) ==
    [k \in 1..Len(dataid) |-> IF dataid[k] = "." THEN "_" ELSE dataid[k]]

\* create_batch(json_store): j['DataId'] raises KeyError on a record without
\* the field; otherwise batch.add(stm, values) once per record, in order.
\* orders[k] is the key order of the k-th dict.
create_batch(json_store, orders) ==
    IF \E k \in 1..Len(json_store) : "DataId" \notin DOMAIN json_store[k]
    THEN [ok |-> FALSE, inserts |-> 0, batch |-> <<>>]
    ELSE [ok |-> TRUE, inserts |-> Len(json_store),
          batch |-> [k \in 1..Len(json_store) |->
                        get_cql(json_store[k],
                                TableName(json_store[k].DataId),
                                orders[k])]]

\* Whether create_batch raises, its insert count and the tables its
\* statements name are the same under every key order: the outcome under one.
Built(json_store) ==
    create_batch(json_store,
                 [k \in 1..Len(json_store) |->
                     CHOOSE o \in KeysOf(json_store[k]) : TRUE])

\* The sink (session.execute).  The keyspace the session is connected to
\* holds a set of tables (check_nodes.py reads them from keyspace.tables); the
\* repository does not list them, and two names stand here for tables it
\* holds.  A batch naming another table is refused with InvalidRequest on
\* every call; a batch the keyspace can take may still meet an outage (see
\* SinkRaises).
KnownTables ==
    { <<"MONROE", "_", "META">>, <<"MONROE", "_", "EXP", "_", "PING">> }
SinkAccepts(batch) ==
    \A k \in 1..Len(batch) : batch[k].stm.table \in KnownTables

\* ------------------------------------------------------ monroevalidator
\* _check_ping(entry, VERBOSITY): the conjunction is evaluated left to right
\* and stops at the first false comparison; entry[k] of a missing key raises
\* KeyError, which the except clause turns into False (with a print when
\* VERBOSITY > 1).
check_ping(entry, VERBOSITY) ==
    LET raised == [result |-> FALSE, printed |-> VERBOSITY > 1]
        no == [result |-> FALSE, printed |-> FALSE]
        yes == [result |-> TRUE, printed |-> FALSE]
    IN IF "SequenceNumber" \notin DOMAIN entry THEN raised
       ELSE IF ~(entry.SequenceNumber >= 0) THEN no
       ELSE IF "Rtt" \notin DOMAIN entry THEN raised
       ELSE IF ~(entry.Rtt > 0) THEN no
       ELSE IF "Bytes" \notin DOMAIN entry THEN raised
       ELSE IF ~(entry.Bytes > 0) THEN no
       ELSE IF "TimeStamp" \notin DOMAIN entry THEN raised
       ELSE IF ~(entry.TimeStamp > 0) THEN no
       ELSE yes

\* check that turns away every DataId it has no test for
check_RejectsUnknown(entry, VERBOSITY) ==
    IF "DataId" \notin DOMAIN entry
    THEN [result |-> FALSE, printed |-> VERBOSITY > 1]
    ELSE IF entry.DataId = PingId THEN check_ping(entry, VERBOSITY)
    ELSE [result |-> FALSE, printed |-> VERBOSITY > 1]

\* check(entry, VERBOSITY): what it returns and whether it printed
check(entry, VERBOSITY) ==
    IF "DataId" \notin DOMAIN entry
    THEN [result |-> FALSE, printed |-> VERBOSITY > 1]
    ELSE IF entry.DataId = PingId THEN check_ping(entry, VERBOSITY)
    ELSE [result |-> TRUE, printed |-> VERBOSITY > 1]

\* Contents of the files the pipeline is run on.
FileContents ==
    { <<>>,
      <<"rec">>,
      <<"rec", "open">>,
      <<"nodid">>,
      <<"badtbl">> }

\* ------------------------------------------------------------------ state
VARIABLES
    failed_dir,     \* path string: where failed files go
    processed_dir,  \* path string: where imported files go
    mounts,         \* the directories that are mount points of other devices
    session,        \* TRUE: a sink session; FALSE: --debug (session is None)
    concurrency,    \* size of the ThreadPool
    interval,       \* seconds between scans, <= 0 for a single pass
    content,        \* file -> its lines
    origin,         \* file -> the resolved path it lay at when the program started
    loc,            \* file -> the resolved path it lies at now, or Gone
    outage,         \* the files whose batch the sink fails to write once (a
                    \* timeout, no host available) before it takes it
    sink,           \* the batches the sink has confirmed, oldest first
    refusals,       \* the files for a batch of which session.execute has
                    \* raised (history)
    pc,             \* parse_files/schedule_workers: "scan", "sleep", "returned", "crashed"
    pass,           \* number of the pass under way
    frames,         \* os.walk: stack of sets of directories still to visit
    listing,        \* paths of the '*.json' files of the directory os.walk
                    \* yielded last that are still to be dispatched, in order
    tasks,          \* async_results of this pass, with each call's position
    file_count,     \* schedule_workers' counter
    aggregate,      \* what schedule_workers returned last, <<>> before
    donePass,       \* file -> pass in which handle_file first moved it to its
                    \* done destination, 0 if it never did (history)
    elapsed,        \* parse_files: seconds the pass took, NoTime while unset
    wait,           \* parse_files: seconds to sleep, NoTime while unset
    entry,          \* monroevalidator: the dict given to check, <<>> when none
    verbosity,      \* monroevalidator: the VERBOSITY given to check
    verdict         \* monroevalidator: what check returned, NoVerdict before

config == <<failed_dir, processed_dir, mounts, session, concurrency, interval,
            content, origin, outage>>
vars == <<failed_dir, processed_dir, mounts, session, concurrency, interval,
          content, origin, outage, loc, sink, refusals, pc, pass, frames,
          listing, tasks,
          file_count,
          aggregate, donePass, elapsed, wait, entry, verbosity, verdict>>

\* parse_files' locals elapsed and wait hold a value from the end of a pass to
\* the end of the sleep that follows it
NoTime == -1
timing == <<elapsed, wait>>

\* monroe_dbimporter does not import monroevalidator: no step of the importer
\* calls check, and the validator's variables stay as they are
validation == <<entry, verbosity, verdict>>
NoVerdict == [called |-> FALSE]
NoValidation ==
    /\ entry = <<>>
    /\ verbosity = 0
    /\ verdict = NoVerdict

\* ------------------------------------------------------ the file system
FilesAt(c) == {f \in FileIds : loc[f] = c}
FileAt(c) ==
    LET here == FilesAt(c)
    IN IF here = {} THEN 0 ELSE CHOOSE f \in here : TRUE

\* the device a directory lies on: its nearest mount point, <<>> for the root
\* file system
DeviceOf(c) ==
    LET above == {m \in mounts : Len(m) <= Len(c) /\ SubSeq(c, 1, Len(m)) = m}
    IN IF above = {} THEN <<>>
       ELSE CHOOSE m \in above : \A n \in above : Len(n) <= Len(m)

\* os.rename(src, dst), s and d being what src and dst resolve to.
\* It cannot reach d: no such destination directory, the destination is a
\* directory, or source and destination lie on different devices
DestUnusable(s, d) ==
    \/ Parent(d) \notin AllDirs
    \/ d \in AllDirs
    \/ DeviceOf(Parent(s)) # DeviceOf(Parent(d))

\* os.rename raises OSError
RenameRaises(s, d) ==
    \/ FileAt(s) = 0
    \/ DestUnusable(s, d)

\* the file system after a successful os.rename: a file already at d is
\* replaced
Renamed(s, d) ==
    LET f == FileAt(s)
    IN IF s = d THEN loc
       ELSE [g \in FileIds |->
                IF g = f THEN d
                ELSE IF loc[g] = d THEN Gone
                ELSE loc[g]]

\* os.listdir(top) as os.walk splits it: names of sub-directories and of files
\* r is the resolved directory
DirsIn(r) == {LeafName(d) : d \in {e \in AllDirs : Parent(e) = r}}
FilesIn(l, r) ==
    {LeafName(l[f]) : f \in {g \in FileIds : l[g] # Gone /\ Parent(l[g]) = r}}
SubDirNames(top) == DirsIn(Resolve(top))
FileNamesIn(l, top) == FilesIn(l, Resolve(top))

\* ------------------------------------------------------------------ Init
\* All directories exist.  A failed or processed directory outside the scanned
\* tree may lie on another device; without a session nothing is renamed and
\* the devices are not looked at.
MountChoices(args, sess) ==
    IF sess /\ ~Inside(Resolve(FailedDirOf(args)), in_dir)
    THEN { {}, {Resolve(FailedDirOf(args))}, {Resolve(ProcessedDirOf(args))} }
    ELSE { {} }

\* MaxFiles files at distinct places, file f before file f+1 in Places; a
\* file that '*.json' does not match is never read, so its content is fixed.
Placements ==
    { pl \in [FileIds -> 1..Len(Places)] :
        \A f, g \in FileIds : f < g => pl[f] < pl[g] }

ContentsAt(place) ==
    IF MatchesJson(LeafName(place)) THEN FileContents ELSE { <<"rec">> }

Intervals == {-1, 1}

\* The sink is a cluster reached over the network: session.execute may raise
\* on any call (a timeout, no host available) and take the same batch on the
\* next.  Which files meet such an outage is an input of the run; an outage
\* shows only on a file that lies where the walk looks for it and whose batch
\* the sink would take, and only with a session.
Sendable(lines) ==
    LET parsed == parse_json(lines)
        built == Built(parsed.jsons)
    IN parsed.ok /\ built.ok /\ SinkAccepts(built.batch)

Outages ==
    SUBSET {f \in FileIds :
               /\ session
               /\ origin[f] # Gone
               /\ MatchesJson(LeafName(origin[f]))
               /\ Sendable(content[f])}

Init ==
    /\ \E args \in ArgChoices :
         /\ failed_dir = FailedDirOf(args)
         /\ processed_dir = ProcessedDirOf(args)
         /\ session \in BOOLEAN
         /\ mounts \in MountChoices(args, session)
    /\ concurrency \in 1..MaxConcurrency
    /\ interval \in Intervals
    /\ \E pl \in Placements :
         /\ origin = [f \in FileIds |-> Places[pl[f]]]
         /\ content \in [FileIds -> FileContents]
         /\ \A f \in FileIds : content[f] \in ContentsAt(Places[pl[f]])
    /\ outage \in Outages
    /\ loc = origin
    /\ sink = <<>>
    /\ refusals = {}
    /\ pc = "scan"
    /\ pass = 1
    /\ frames = << {in_dir} >>
    /\ listing = <<>>
    /\ tasks = <<>>
    /\ file_count = 0
    /\ aggregate = <<>>
    /\ donePass = [f \in FileIds |-> 0]
    /\ elapsed = NoTime
    /\ wait = NoTime
    /\ NoValidation

\* ------------------------------------------------------ schedule_workers
\* all orders in which os.listdir may return the names of S
Orders(S) ==
    { o \in [1..Cardinality(S) -> S] :
        \A i, j \in 1..Cardinality(S) : i # j => o[i] # o[j] }

\* pool.apply_async(handle_file, (path, ...)): a queued call.  dfid is the
\* file lying at path when it is dispatched, fid the file the call finds there
\* when it runs (0: none), moved the resolved path the call renamed it to
\* (all history), opened whether open() gave it a file, which parse_json was
\* then called on, executed whether session.execute(batch) has returned for
\* it (both history).  inserts and batch are the locals of handle_file; nothing
\* reads the batch once session.execute was called with it, and it is dropped
\* there.
NewTask(path) ==
    [path |-> path, pc |-> "queued", dfid |-> FileAt(Resolve(path)),
     fid |-> 0, opened |-> FALSE, inserts |-> 0, batch |-> <<>>,
     executed |-> FALSE,
     result |-> 0, moved |-> <<>>]

\* dirs[:] = [d for d in dirs if os.path.join(in_dir, d) not in exclude]
KeptDirs(names) ==
    {d \in names : path_join(in_dir, d) \notin {processed_dir, failed_dir}}

\* "for root, dirs, files in os.walk(in_dir, topdown=True)" yields the next
\* directory once the files of the one before are all dispatched: it lists the
\* directory, the loop body prunes dirs, and the matching file names wait, in
\* the order of the listing, for their pool.apply_async.
WalkDir ==
    /\ pc = "scan"
    /\ frames # <<>>
    /\ listing = <<>>
    /\ \E top \in frames[Len(frames)] :
         LET r == Resolve(top)
             keep == KeptDirs(DirsIn(r))
             names == {n \in FilesIn(loc, r) : MatchesJson(n)}
             rest == frames[Len(frames)] \ {top}
             below == IF rest = {}
                      THEN SubSeq(frames, 1, Len(frames) - 1)
                      ELSE [frames EXCEPT ![Len(frames)] = rest]
         IN /\ frames' = IF keep = {} THEN below
                         ELSE Append(below, {path_join(top, d) : d \in keep})
            /\ \E o \in Orders(names) :
                 listing' = [k \in 1..Len(o) |-> path_join(top, o[k])]
    /\ UNCHANGED <<config, validation, timing, loc, sink, refusals, pc, pass, tasks,
                   file_count, aggregate, donePass>>

\* One turn of "for filename in fnmatch.filter(files, '*.json')": count the
\* file and hand one handle_file call to the pool; the pool threads run
\* between two turns.
Dispatch ==
    /\ pc = "scan"
    /\ listing # <<>>
    /\ tasks' = Append(tasks, NewTask(Head(listing)))
    /\ file_count' = file_count + 1
    /\ listing' = Tail(listing)
    /\ UNCHANGED <<config, validation, timing, loc, sink, refusals, pc, pass, frames,
                   aggregate, donePass>>

\* ------------------------------------------------------ handle_file
Running == {t \in 1..Len(tasks) :
               tasks[t].pc \in {"open", "exec", "mvdone", "fail"}}
Finished(t) == tasks[t].pc \in {"returned", "raised"}

\* handle_file from its entry to the zero-size check: os.stat(filename) raises
\* OSError when no file lies at the path, and a size of zero raises "Zero file
\* size"; both go to the except clause.  fid is the file os.stat saw.
Statted(t) ==
    LET f == FileAt(Resolve(tasks[t].path))
    IN IF f = 0 \/ content[f] = <<>>
       THEN [tasks EXCEPT ![t].pc = "fail", ![t].fid = f]
       ELSE [tasks EXCEPT ![t].pc = "open", ![t].fid = f]

\* handle_file from open to create_batch: open(filename) is a second look at
\* the path and gets the file that lies there now, which another call may
\* have renamed onto it since os.stat; parse_json reads that file, whatever
\* its size, and create_batch builds the batch.  Every failure of these
\* raises into the except clause.  f is the file open finds (0: none).
Stepped(t, f, orders) ==
    LET parsed == parse_json(content[f])
        built == create_batch(parsed.jsons, orders)
    IN IF f = 0 THEN [tasks EXCEPT ![t].pc = "fail"]
       ELSE IF ~parsed.ok \/ ~built.ok
       THEN [tasks EXCEPT ![t].pc = "fail", ![t].fid = f,
                          ![t].opened = TRUE]
       ELSE [tasks EXCEPT ![t].pc = "exec", ![t].fid = f,
                          ![t].opened = TRUE,
                          ![t].inserts = built.inserts,
                          ![t].batch = built.batch]

\* the key orders the dicts read from file f may have
CallOrders(f) ==
    IF f = 0 THEN { <<>> } ELSE KeyOrders(parse_json(content[f]).jsons)

\* Start without the pool's limit: every queued call gets a thread at once.
Start_Unbounded(t) ==
    /\ pc = "scan"
    /\ tasks[t].pc = "queued"
    /\ tasks' = Statted(t)
    /\ UNCHANGED <<config, validation, timing, loc, sink, refusals, pc, pass, frames,
                   listing, file_count, aggregate, donePass>>

\* the queued calls dispatched before call t
QueuedBefore(t) == {u \in 1..(t - 1) : tasks[u].pc = "queued"}

\* A pool thread enters handle_file on a call and runs it up to the zero-size
\* check.  The free threads (there are `concurrency` threads) take calls off
\* the queue oldest first, and the threads that hold a call run in any order:
\* the call is one of the oldest queued calls, as many as there are free
\* threads.
Start(t) ==
    /\ pc = "scan"
    /\ tasks[t].pc = "queued"
    /\ Cardinality(QueuedBefore(t)) < concurrency - Cardinality(Running)
    /\ tasks' = Statted(t)
    /\ UNCHANGED <<config, validation, timing, loc, sink, refusals, pc, pass, frames,
                   listing, file_count, aggregate, donePass>>

\* with open(filename, 'r') as f: json_store.extend(parse_json(f)), then
\* create_batch(json_store, ...)
Open(t) ==
    /\ tasks[t].pc = "open"
    /\ LET f == FileAt(Resolve(tasks[t].path))
       IN \E orders \in CallOrders(f) : tasks' = Stepped(t, f, orders)
    /\ UNCHANGED <<config, validation, timing, loc, sink, refusals, pc, pass, frames,
                   listing, file_count, aggregate, donePass>>

\* session.execute(batch) of call t raises: the batch names a table the
\* keyspace does not have, or the file meets its outage
SinkRaises(t) ==
    \/ ~SinkAccepts(tasks[t].batch)
    \/ tasks[t].fid \in outage \ refusals

\* if (session): session.execute(batch) else: print
Execute(t) ==
    /\ tasks[t].pc = "exec"
    /\ IF session
       THEN IF SinkRaises(t)
            THEN /\ tasks' = [tasks EXCEPT ![t].pc = "fail",
                                           ![t].batch = <<>>]
                 /\ refusals' = refusals \cup {tasks[t].fid}
                 /\ UNCHANGED sink
            ELSE /\ sink' = Append(sink, [fid |-> tasks[t].fid,
                                          n |-> Len(tasks[t].batch),
                                          pass |-> pass])
                 /\ tasks' = [tasks EXCEPT ![t].pc = "mvdone",
                                           ![t].batch = <<>>,
                                           ![t].executed = TRUE]
                 /\ UNCHANGED refusals
       ELSE /\ tasks' = [tasks EXCEPT ![t].pc = "mvdone", ![t].batch = <<>>]
            /\ UNCHANGED <<sink, refusals>>
    /\ UNCHANGED <<config, validation, timing, loc, pc, pass, frames, listing,
                   file_count, aggregate, donePass>>

\* dest_path = processed_dir + os.path.basename(filename); rename; return
MoveDone(t) ==
    /\ tasks[t].pc = "mvdone"
    /\ LET dest_path == processed_dir \o Basename(tasks[t].path)
           src == Resolve(tasks[t].path)
           dst == Resolve(dest_path)
       IN IF session
          THEN IF RenameRaises(src, dst)
               THEN /\ tasks' = [tasks EXCEPT ![t].pc = "fail"]
                    /\ UNCHANGED <<loc, donePass>>
               ELSE /\ loc' = Renamed(src, dst)
                    /\ donePass' =
                         [donePass EXCEPT ![FileAt(src)] =
                             IF @ = 0 THEN pass ELSE @]
                    /\ tasks' = [tasks EXCEPT ![t].pc = "returned",
                                              ![t].result = tasks[t].inserts,
                                              ![t].moved = dst]
          ELSE /\ tasks' = [tasks EXCEPT ![t].pc = "returned",
                                         ![t].result = tasks[t].inserts]
               /\ UNCHANGED <<loc, donePass>>
    /\ UNCHANGED <<config, validation, timing, sink, refusals, pc, pass, frames, listing,
                   file_count, aggregate>>

\* the except clause without its "if (session)": it renames in dry-run too
Fail_AlwaysRenames(t) ==
    /\ tasks[t].pc = "fail"
    /\ LET dest_path == failed_dir \o Basename(tasks[t].path)
           src == Resolve(tasks[t].path)
           dst == Resolve(dest_path)
       IN IF RenameRaises(src, dst)
          THEN /\ tasks' = [tasks EXCEPT ![t].pc = "raised"]
               /\ UNCHANGED loc
          ELSE /\ loc' = Renamed(src, dst)
               /\ tasks' = [tasks EXCEPT ![t].pc = "returned",
                                         ![t].result = 0,
                                         ![t].moved = dst]
    /\ UNCHANGED <<config, validation, timing, sink, refusals, pc, pass, frames, listing,
                   file_count, aggregate, donePass>>

\* except Exception: dest_path = failed_dir + basename; rename; return 0.
\* An OSError of this rename is raised out of handle_file.
Fail(t) ==
    /\ tasks[t].pc = "fail"
    /\ LET dest_path == failed_dir \o Basename(tasks[t].path)
           src == Resolve(tasks[t].path)
           dst == Resolve(dest_path)
       IN IF session
          THEN IF RenameRaises(src, dst)
               THEN /\ tasks' = [tasks EXCEPT ![t].pc = "raised"]
                    /\ UNCHANGED loc
               ELSE /\ loc' = Renamed(src, dst)
                    /\ tasks' = [tasks EXCEPT ![t].pc = "returned",
                                              ![t].result = 0,
                                              ![t].moved = dst]
          ELSE /\ tasks' = [tasks EXCEPT ![t].pc = "returned",
                                         ![t].result = 0]
               /\ UNCHANGED loc
    /\ UNCHANGED <<config, validation, timing, sink, refusals, pc, pass, frames, listing,
                   file_count, aggregate, donePass>>

\* ------------------------------------------------------ end of a pass
RECURSIVE SumResults(_, _)
SumResults(ts, k) == IF k = 0 THEN 0 ELSE ts[k].result + SumResults(ts, k - 1)

\* wait without the clamp at zero
WaitOf_Unclamped(iv, e) == iv - e

\* wait = interval - elapsed if (interval - elapsed > 0) else 0
WaitOf(iv, e) == IF iv - e > 0 THEN iv - e ELSE 0

\* pool.close(); pool.join(); results = [r.get() ...]; the aggregate; then
\* parse_files: elapsed = time.time() - start_time (any duration up to
\* MaxElapsed) and "if (interval > 0)" with the wait.  r.get() re-raises what
\* handle_file raised, and nothing up the stack catches it.
Join ==
    /\ pc = "scan"
    /\ frames = <<>>
    /\ listing = <<>>
    /\ \A t \in 1..Len(tasks) : Finished(t)
    /\ IF \E t \in 1..Len(tasks) : tasks[t].pc = "raised"
       THEN /\ pc' = "crashed"
            /\ UNCHANGED <<aggregate, timing>>
       ELSE /\ aggregate' =
                 << file_count,
                    SumResults(tasks, Len(tasks)),
                    Cardinality({t \in 1..Len(tasks) : tasks[t].result = 0}) >>
            /\ \E e \in 0..MaxElapsed :
                 /\ elapsed' = e
                 /\ wait' = IF interval > 0 THEN WaitOf(interval, e) ELSE wait
            /\ pc' = IF interval > 0 THEN "sleep" ELSE "returned"
    /\ UNCHANGED <<config, validation, loc, sink, refusals, pass, frames, listing, tasks,
                   file_count, donePass>>

\* time.sleep(wait), then the next iteration of "while True": a new pass,
\* which computes elapsed and wait anew before it reads them
Sleep ==
    /\ pc = "sleep"
    /\ pass < MaxPasses
    /\ pass' = pass + 1
    /\ pc' = "scan"
    /\ frames' = << {in_dir} >>
    /\ tasks' = <<>>
    /\ file_count' = 0
    /\ elapsed' = NoTime
    /\ wait' = NoTime
    /\ UNCHANGED <<config, validation, loc, sink, refusals, listing, aggregate,
                   donePass>>

Next ==
    \/ WalkDir
    \/ Dispatch
    \/ \E t \in 1..Len(tasks) : Start(t)
    \/ \E t \in 1..Len(tasks) : Open(t)
    \/ \E t \in 1..Len(tasks) : Execute(t)
    \/ \E t \in 1..Len(tasks) : MoveDone(t)
    \/ \E t \in 1..Len(tasks) : Fail(t)
    \/ Join
    \/ Sleep

Spec == Init /\ [][Next]_vars

\* the runs of the importer with --debug (session stays None, a dry run)
DryRunInit == Init /\ ~session
DryRunSpec == DryRunInit /\ [][Next]_vars

\* ------------------------------------------------------ the parser's inputs
\* every file of at most MaxLines physical lines
LineSeqs == UNION { [1..n -> LineTokens] : n \in 0..MaxLines }

\* The importer with a sink session, failed and processed directories outside
\* the scanned tree, one pool thread and interval 1, run on a tree that holds
\* one file, /in/x.json, which is any file of LineSeqs.
ParseInit ==
    /\ failed_dir = <<SEP, "out", SEP, "failed", SEP>>
    /\ processed_dir = <<SEP, "out", SEP, "processed", SEP>>
    /\ session = TRUE
    /\ mounts = {}
    /\ concurrency = 1
    /\ interval = 1
    /\ origin = [f \in FileIds |-> IF f = 1 THEN Places[1] ELSE Gone]
    /\ \E lines \in LineSeqs :
         content = [f \in FileIds |-> IF f = 1 THEN lines ELSE <<>>]
    /\ outage \in Outages
    /\ loc = origin
    /\ sink = <<>>
    /\ refusals = {}
    /\ pc = "scan"
    /\ pass = 1
    /\ frames = << {in_dir} >>
    /\ listing = <<>>
    /\ tasks = <<>>
    /\ file_count = 0
    /\ aggregate = <<>>
    /\ donePass = [f \in FileIds |-> 0]
    /\ elapsed = NoTime
    /\ wait = NoTime
    /\ NoValidation

ParseSpec == ParseInit /\ [][Next]_vars

\* ------------------------------------------------------ the validator alone
\* monroevalidator is a module of its own: check is called with a dict and a
\* verbosity.  The dicts: with or without a DataId (that of the ping test or
\* another), and any of the four fields of the ping test with a number.
PingFields == {"SequenceNumber", "Rtt", "Bytes", "TimeStamp"}
DataIds == { PingId, <<"MONROE", ".", "META">> }

WithDataId(g, id) ==
    [k \in DOMAIN g \cup {"DataId"} |-> IF k = "DataId" THEN id ELSE g[k]]

Entries ==
    LET numeric == UNION { [S -> (-MaxValue)..MaxValue] : S \in SUBSET PingFields }
    IN numeric \cup { WithDataId(g, id) : g \in numeric, id \in DataIds }

\* the importer is not running: its variables keep the values of a dry-run
\* on an empty tree that has returned
ImporterAtRest ==
    /\ failed_dir = FailedDirOf([failed |-> <<>>, processed |-> <<>>])
    /\ processed_dir = ProcessedDirOf([failed |-> <<>>, processed |-> <<>>])
    /\ session = FALSE
    /\ mounts = {}
    /\ concurrency = 1
    /\ interval = -1
    /\ origin = [f \in FileIds |-> Gone]
    /\ content = [f \in FileIds |-> <<>>]
    /\ outage = {}
    /\ loc = origin
    /\ sink = <<>>
    /\ refusals = {}
    /\ pc = "returned"
    /\ pass = 1
    /\ frames = <<>>
    /\ listing = <<>>
    /\ tasks = <<>>
    /\ file_count = 0
    /\ aggregate = <<0, 0, 0>>
    /\ donePass = [f \in FileIds |-> 0]
    /\ elapsed = 0
    /\ wait = NoTime

ValidatorInit ==
    /\ ImporterAtRest
    /\ entry \in Entries
    /\ verbosity \in 0..MaxVerbosity
    /\ verdict = NoVerdict

\* a call of check(entry, VERBOSITY)
CheckEntry ==
    /\ verdict = NoVerdict
    /\ entry \in Entries
    /\ verdict' = check(entry, verbosity)
    /\ UNCHANGED <<config, timing, entry, verbosity, loc, sink, refusals, pc, pass,
                   frames, listing, tasks, file_count, aggregate, donePass>>

ValidatorNext == CheckEntry

ValidatorSpec == ValidatorInit /\ [][ValidatorNext]_vars

\* ------------------------------------------------------ vocabulary of the claims
\* file f lies directly in the directory named by d
InDir(f, d) == loc[f] # Gone /\ Parent(loc[f]) = Resolve(d)

\* the sink has confirmed a batch read from f holding all of f's records
Committed(f) ==
    \E k \in 1..Len(sink) :
        /\ sink[k].fid = f
        /\ sink[k].n = Len(parse_json(content[f]).jsons)

\* the text of f ends inside a JSON value: parse_json runs out of lines while
\* its buffer does not decode (the StopIteration handler), whatever the last
\* line is.  A file without lines never enters the for loop.
EndsMidObject(f) ==
    /\ content[f] # <<>>
    /\ ~parse_json(content[f]).ok

\* schedule_workers has just returned the aggregate of the current pass
PassReported == pc \in {"sleep", "returned"}

\* ------------------------------------------------------------------ C1
\* C1: with a sink session, every file lying in the done directory, and every
\* file handle_file ever moved to its done destination, has had its whole
\* batch confirmed by the sink; a file for which the sink write raised is
\* never moved to done.
C1_DoneOnlyAfterCommit ==
    session =>
        LET done == Resolve(processed_dir)
        IN \A f \in FileIds :
               (donePass[f] # 0 \/ (loc[f] # Gone /\ Parent(loc[f]) = done))
                   => (Committed(f) /\ f \notin refusals)

\* ------------------------------------------------------------------ C10
\* C10: at every moment the number of handle_file invocations that have
\* started and not yet returned is at most the configured concurrency.
C10_AtMostNInFlight == Cardinality(Running) <= concurrency

\* the pool is full and a dispatched call is waiting for a thread
C10_Witness ==
    /\ Cardinality(Running) = concurrency
    /\ \E t \in 1..Len(tasks) : tasks[t].pc = "queued"

\* ------------------------------------------------------------------ C2
\* C2: a file whose text ends inside a JSON value never has a record submitted
\* to the sink, and every handle_file call that was given it and has ended
\* returned 0 after renaming it into the failed directory.
C2_TruncatedFileFailsWhole ==
    session =>
        \A f \in FileIds :
            EndsMidObject(f) =>
                /\ \A k \in 1..Len(sink) : sink[k].fid # f
                /\ \A t \in 1..Len(tasks) :
                       (tasks[t].dfid = f /\ Finished(t)) =>
                           /\ tasks[t].pc = "returned"
                           /\ tasks[t].result = 0
                           /\ tasks[t].moved # <<>>
                           /\ Parent(tasks[t].moved) = Resolve(failed_dir)

\* ------------------------------------------------------------------ C3
\* C3: no path lying inside the done directory or inside the failed directory
\* is ever dispatched to a worker.
C3_OutputDirsNeverScanned ==
    \A t \in 1..Len(tasks) :
        /\ ~Inside(Resolve(tasks[t].path), processed_dir)
        /\ ~Inside(Resolve(tasks[t].path), failed_dir)

\* ------------------------------------------------------------------ C4
\* C4: a file handle_file moved to its done destination in an earlier pass is
\* not dispatched in the current pass, and the sink confirms no batch of it
\* in a pass after the one that moved it.
C4_DoneFileNeverRevisited ==
    /\ \A t \in 1..Len(tasks) :
           tasks[t].dfid # 0 =>
               (donePass[tasks[t].dfid] = 0 \/ donePass[tasks[t].dfid] >= pass)
    /\ \A k \in 1..Len(sink) :
           donePass[sink[k].fid] # 0 => sink[k].pass <= donePass[sink[k].fid]

\* ------------------------------------------------------------------ C5
\* C5: no error of one file's processing leaves handle_file: no call ends by
\* raising, and schedule_workers / parse_files never end with an exception.
C5_NoErrorEscapesHandleFile ==
    /\ \A t \in 1..Len(tasks) : tasks[t].pc # "raised"
    /\ pc # "crashed"

\* ------------------------------------------------------------------ C6
\* C6: with a sink session, when schedule_workers returns the aggregate no
\* call is queued or running, file_count results were collected, and no
\* dispatched file lies at the path it was discovered at.
C6_AllTerminalBeforeAggregate ==
    (session /\ PassReported) =>
        /\ \A t \in 1..Len(tasks) : Finished(t)
        /\ Len(tasks) = file_count
        /\ aggregate[1] = file_count
        /\ \A t \in 1..Len(tasks) :
               tasks[t].dfid # 0 =>
                   loc[tasks[t].dfid] # Resolve(tasks[t].path)

\* ------------------------------------------------------------------ C7
\* C7: the pipeline never destroys a file: every file that existed when the
\* program started still exists somewhere.
C7_NoFileDestroyed == \A f \in FileIds : loc[f] # Gone

\* ------------------------------------------------------------------ C8
\* C8: within one pass no two calls of handle_file are given the same file,
\* and the sink confirms at most one batch of any file.
C8_NoDoubleProcessingInPass ==
    /\ \A t, u \in 1..Len(tasks) :
           (t # u /\ tasks[t].dfid # 0) => tasks[t].dfid # tasks[u].dfid
    /\ \A j, k \in 1..Len(sink) :
           (j # k /\ sink[j].pass = sink[k].pass) => sink[j].fid # sink[k].fid

\* ------------------------------------------------------------------ C9
\* The paths a scan of the tree l yields when nothing moves during the walk.
RECURSIVE ScanPaths(_, _)
ScanPaths(l, top) ==
    {path_join(top, n) : n \in {m \in FileNamesIn(l, top) : MatchesJson(m)}}
    \cup UNION {ScanPaths(l, path_join(top, d)) : d \in KeptDirs(SubDirNames(top))}

\* handle_file raised: it returned no value
NoResult == -1

\* What handle_file returns for file f at path p with no other call at work;
\* NoResult when the rename of its except clause raises.
ResultAlone(f, p) ==
    LET parsed == parse_json(content[f])
        built == Built(parsed.jsons)
        excepted == IF session /\ DestUnusable(Resolve(p),
                                                Resolve(failed_dir \o Basename(p)))
                    THEN NoResult ELSE 0
    IN IF content[f] = <<>> \/ ~parsed.ok \/ ~built.ok THEN excepted
       ELSE IF session /\ (~SinkAccepts(built.batch) \/ f \in outage)
            THEN excepted
       ELSE IF session /\ DestUnusable(Resolve(p),
                                        Resolve(processed_dir \o Basename(p)))
            THEN excepted
       ELSE built.inserts

\* the file that lay at path p when the program started
OriginFile(p) == CHOOSE g \in FileIds : origin[g] = Resolve(p)

RECURSIVE SumAlone(_)
SumAlone(ps) ==
    IF ps = {} THEN 0
    ELSE LET p == CHOOSE q \in ps : TRUE
         IN ResultAlone(OriginFile(p), p) + SumAlone(ps \ {p})

\* The aggregate of the first pass as the files the program started with
\* determine it: what the pass yields when the walk ends before any worker
\* starts; <<>>, no aggregate, when a call raises.
FirstPassAggregate ==
    LET ps == ScanPaths(origin, in_dir)
    IN IF \E p \in ps : ResultAlone(OriginFile(p), p) = NoResult THEN <<>>
       ELSE << Cardinality(ps),
               SumAlone(ps),
               Cardinality({p \in ps : ResultAlone(OriginFile(p), p) = 0}) >>

\* C9: the aggregate of a pass depends on the file set and the sink alone, not
\* on the concurrency level or the interleaving of walk and workers: the
\* first pass always returns FirstPassAggregate.
C9_AggregateIndependentOfSchedule ==
    (pass = 1 /\ PassReported) => aggregate = FirstPassAggregate


\* ------------------------------------------------------------------ C11
\* C11: with interval > 0, after a pass that took `elapsed` seconds the loop
\* sleeps exactly max(0, interval - elapsed): the rest of the interval when
\* the pass was shorter, nothing (and never a negative time) when it overran.
C11_SleepsRestOfInterval ==
    pc = "sleep" =>
        /\ interval > 0
        /\ elapsed \in 0..MaxElapsed
        /\ wait >= 0
        /\ wait >= interval - elapsed
        /\ (wait = 0 \/ wait = interval - elapsed)

\* a pass overran its interval and the loop is about to sleep
C11_Witness ==
    /\ pc = "sleep"
    /\ elapsed > interval
    /\ wait = 0

\* ------------------------------------------------------------------ C12
\* C12: with interval <= 0 parse_files makes exactly one pass and returns
\* without sleeping; with interval > 0 it never stops: every pass ends in a
\* sleep, which a new pass follows.  So the loop ends in no other way than
\* by the return after the single pass.
C12_LoopEndsOnlyAfterSinglePass ==
    /\ pc # "crashed"
    /\ pc = "returned" => (interval <= 0 /\ pass = 1 /\ wait = NoTime)
    /\ pc = "sleep" => interval > 0
    /\ interval <= 0 => pass = 1

\* ------------------------------------------------------------------ C13
\* every physical line of the file holds exactly one well-formed JSON object
OneObjectPerLine(lines) ==
    /\ Len(lines) >= 1
    /\ \A i \in 1..Len(lines) : lines[i] \in WholeObjects

\* C13: for a file of N >= 1 physical lines, each holding exactly one
\* well-formed JSON object, parse_json raises nothing and returns exactly N
\* records, the i-th being the decoding of the i-th line; a call of
\* handle_file that built its batch from such a file built N inserts.
C13_OneRecordPerLine ==
    \A f \in FileIds : OneObjectPerLine(content[f]) =>
        /\ parse_json(content[f]).ok
        /\ Len(parse_json(content[f]).jsons) = Len(content[f])
        /\ \A i \in 1..Len(content[f]) :
               parse_json(content[f]).jsons[i] = Decode(<<content[f][i]>>)
        /\ \A t \in 1..Len(tasks) :
               (tasks[t].fid = f /\ tasks[t].pc = "exec") =>
                   tasks[t].inserts = Len(content[f])

\* handle_file has parsed a file of several one-line objects of two kinds
C13_Witness ==
    \E t \in 1..Len(tasks) :
        /\ tasks[t].pc = "exec"
        /\ OneObjectPerLine(content[tasks[t].fid])
        /\ Len(content[tasks[t].fid]) >= 2
        /\ content[tasks[t].fid][1] # content[tasks[t].fid][2]
        /\ tasks[t].inserts = Len(content[tasks[t].fid])

\* ------------------------------------------------------------------ C14
\* the files parse_json was called on: those a call opened
ParsedFiles ==
    {tasks[t].fid : t \in {u \in 1..Len(tasks) : tasks[u].opened}}

\* a successful parse consumed every line, so some record took more than one
\* physical line exactly when there are fewer records than lines
SomeRecordSpansLines(lines) == Len(parse_json(lines).jsons) < Len(lines)

\* C14: an object split across k > 1 physical lines gives exactly one record,
\* and for every file that parses the multi-line advisory is emitted if and
\* only if at least one record of the file needed more than one physical
\* line, wherever in the file that record is.
C14_AdvisoryIffSomeRecordSpansLines ==
    \A f \in ParsedFiles :
        /\ (Len(content[f]) >= 2 /\ Decodable(content[f])) =>
               /\ parse_json(content[f]).ok
               /\ Len(parse_json(content[f]).jsons) = 1
        /\ parse_json(content[f]).ok =>
               (parse_json(content[f]).advisory
                    <=> SomeRecordSpansLines(content[f]))

\* ------------------------------------------------------------------ C15
\* os.stat(filename).st_size == 0
ZeroBytes(f) == content[f] = <<>>

\* C15: with a sink session, a zero-byte file is rejected before it is read:
\* no call opens it, nothing of it is submitted to the sink, every call of
\* handle_file on it
\* relocates it to the failed directory and returns 0, so that it counts 0
\* to the committed and 1 to the failed count of the pass.
C15_ZeroByteFileFails ==
    session => \A f \in FileIds : ZeroBytes(f) =>
        /\ \A k \in 1..Len(sink) : sink[k].fid # f
        /\ \A t \in 1..Len(tasks) : tasks[t].fid = f =>
               /\ ~tasks[t].opened
               /\ tasks[t].pc \notin {"exec", "mvdone", "raised"}
               /\ tasks[t].inserts = 0
               /\ tasks[t].pc = "returned" =>
                      /\ tasks[t].result = 0
                      /\ tasks[t].moved # <<>>
                      /\ Parent(tasks[t].moved) = Resolve(failed_dir)

\* ------------------------------------------------------------------ C16
\* what handle_file returns in dry-run for a file it found: the number of
\* inserts of the batch it built, 0 when the file is empty, does not parse or
\* has a record without DataId
DryRunResult(f) ==
    LET parsed == parse_json(content[f])
        built == Built(parsed.jsons)
    IN IF ZeroBytes(f) \/ ~parsed.ok \/ ~built.ok THEN 0 ELSE built.inserts

\* C16: in dry-run (session is None) handle_file still parses the file and
\* builds the batch, but on success and on every failure path it writes
\* nothing to the sink and renames nothing: whatever the number of passes,
\* every file is still where it was when the program started.
C16_DryRunTouchesNothing ==
    ~session =>
        /\ loc = origin
        /\ sink = <<>>
        /\ pc # "crashed"
        /\ \A t \in 1..Len(tasks) :
               /\ tasks[t].moved = <<>>
               /\ tasks[t].pc # "raised"
               /\ tasks[t].pc = "returned" =>
                      /\ tasks[t].fid = tasks[t].dfid
                      /\ tasks[t].result = DryRunResult(tasks[t].fid)

\* second pass of a dry-run: one call has returned the inserts of its batch,
\* another has gone through the except clause
C16_Witness ==
    /\ ~session
    /\ pass >= 2
    /\ \E t, u \in 1..Len(tasks) :
         /\ tasks[t].pc = "returned" /\ tasks[t].result > 0
         /\ tasks[u].pc = "returned" /\ tasks[u].result = 0

\* ------------------------------------------------------------------ C17
\* session.execute(batch) of call t has returned: the sink confirmed the batch
CallCommitted(t) == tasks[t].executed

\* C17: when the sink has confirmed the batch of a call and the move to the
\* done directory fails, the call does not end as a sink write failure or a
\* parse failure does: it does not go through the generic failure path (the
\* except clause with its one log message, the move to the failed directory
\* and the return value 0).
C17_CommittedNotRelocatedIsDistinct ==
    \A t \in 1..Len(tasks) : CallCommitted(t) =>
        /\ tasks[t].pc # "fail"
        /\ tasks[t].pc = "returned" =>
               /\ tasks[t].result > 0
               /\ Parent(tasks[t].moved) # Resolve(failed_dir)

\* ------------------------------------------------------------------ C18
\* records of the batches among the first k the sink confirmed, that it
\* confirmed during pass p
RECURSIVE RecordsConfirmed(_, _)
RecordsConfirmed(k, p) ==
    IF k = 0 THEN 0
    ELSE (IF sink[k].pass = p THEN sink[k].n ELSE 0) + RecordsConfirmed(k - 1, p)

\* C18: with a sink session, handle_file returns the number of records of the
\* batch the sink committed and 0 on any failure, so that the insert_count a
\* pass reports equals the records of all batches the sink confirmed during
\* that pass, whatever the parse, write and relocation outcomes.
C18_InsertCountIsWhatSinkConfirmed ==
    session =>
        /\ \A t \in 1..Len(tasks) : tasks[t].pc = "returned" =>
               tasks[t].result =
                   IF CallCommitted(t) THEN tasks[t].inserts ELSE 0
        /\ PassReported => aggregate[2] = RecordsConfirmed(Len(sink), pass)

\* ------------------------------------------------------------------ C19
\* the file parses and one of its records has no DataId field
LacksDataId(f) ==
    /\ parse_json(content[f]).ok
    /\ \E k \in 1..Len(parse_json(content[f]).jsons) :
           "DataId" \notin DOMAIN parse_json(content[f]).jsons[k]

\* C19: if any record of a file lacks DataId, at whatever position, the whole
\* file is aborted: session.execute is never called for it and no partial
\* batch is sent, handle_file returns 0, and with a sink session the file is
\* relocated to the failed directory.
C19_MissingDataIdAbortsFile ==
    \A f \in FileIds : LacksDataId(f) =>
        /\ \A k \in 1..Len(sink) : sink[k].fid # f
        /\ \A t \in 1..Len(tasks) : tasks[t].fid = f =>
               /\ tasks[t].pc \notin {"exec", "mvdone", "raised"}
               /\ tasks[t].batch = <<>>
               /\ tasks[t].pc = "returned" =>
                      /\ tasks[t].result = 0
                      /\ session =>
                             /\ tasks[t].moved # <<>>
                             /\ Parent(tasks[t].moved) = Resolve(failed_dir)

\* ------------------------------------------------------------------ C20
\* the calls of this pass dispatched for file f
Dispatches(f) == {t \in 1..Len(tasks) : tasks[t].dfid = f}

\* f is a '*.json' file under the scanned root and not inside the failed or
\* the processed directory
ToBeDispatched(f) ==
    /\ loc[f] # Gone
    /\ MatchesJson(LeafName(loc[f]))
    /\ Inside(loc[f], in_dir)
    /\ ~Inside(loc[f], failed_dir)
    /\ ~Inside(loc[f], processed_dir)

\* C20: on a static tree (dry-run, where nothing is renamed) a finished scan
\* has dispatched exactly once every '*.json' file at any depth under the
\* root that is not inside an excluded directory, and no other file; a
\* directory deeper in the tree that merely bears the name of an excluded
\* directory (/in/a/failed with /in/failed excluded) is traversed.
C20_ScanDispatchesEachFileOnce ==
    (~session /\ frames = <<>> /\ listing = <<>>) =>
        \A f \in FileIds :
            Cardinality(Dispatches(f)) = IF ToBeDispatched(f) THEN 1 ELSE 0

\* ------------------------------------------------------------------ C21
\* the records handle_file parsed from the file call t found
RecordsOf(t) == parse_json(content[tasks[t].fid]).jsons

\* C21: the batch a call built holds exactly one insert per record, in record
\* order: the k-th insert targets the table named by the k-th record's DataId
\* with every '.' replaced by '_', lists each field of the record as a column
\* exactly once with one placeholder and one value per column, the i-th value
\* being the record's value of the i-th column; the insert count is the
\* number of records.
C21_OneInsertPerRecord ==
    \A t \in 1..Len(tasks) : tasks[t].pc = "exec" =>
        /\ tasks[t].inserts = Len(RecordsOf(t))
        /\ Len(tasks[t].batch) = Len(RecordsOf(t))
        /\ \A k \in 1..Len(RecordsOf(t)) :
             LET j == RecordsOf(t)[k]
                 op == tasks[t].batch[k]
             IN /\ Len(op.stm.table) = Len(j.DataId)
                /\ \A i \in 1..Len(j.DataId) :
                       op.stm.table[i] =
                           IF j.DataId[i] = "." THEN "_" ELSE j.DataId[i]
                /\ Len(op.stm.headers) = Cardinality(DOMAIN j)
                /\ {op.stm.headers[i] : i \in 1..Len(op.stm.headers)} = DOMAIN j
                /\ op.stm.placeholders = Len(op.stm.headers)
                /\ Len(op.values) = Len(op.stm.headers)
                /\ \A i \in 1..Len(op.values) :
                       op.values[i] = j[op.stm.headers[i]]

\* a call has built the batch of a file of several records for two tables
C21_Witness ==
    \E t \in 1..Len(tasks) :
        /\ tasks[t].pc = "exec"
        /\ Len(tasks[t].batch) >= 2
        /\ tasks[t].batch[1].stm.table # tasks[t].batch[2].stm.table
        /\ Len(tasks[t].batch[1].values) >= 2

\* ------------------------------------------------------------------ C22
\* C22: with a sink session a file is relocated along the transitions
\* Committed -> done and *Failed -> failed only: a call whose batch the sink
\* confirmed relocates its file to the done directory and nowhere else, and
\* no file lying in the failed directory has had a batch committed.
C22_CommittedGoesToDoneOnly ==
    session =>
        /\ \A t \in 1..Len(tasks) :
               (CallCommitted(t) /\ tasks[t].moved # <<>>) =>
                   Parent(tasks[t].moved) = Resolve(processed_dir)
        /\ \A f \in FileIds : InDir(f, failed_dir) =>
               \A k \in 1..Len(sink) : sink[k].fid # f

\* ------------------------------------------------------------------ C24
\* the four tests of the ping container, each on a field that is present
PingFieldsHold(e) ==
    /\ PingFields \subseteq DOMAIN e
    /\ e.SequenceNumber >= 0
    /\ e.Rtt > 0
    /\ e.Bytes > 0
    /\ e.TimeStamp > 0

\* C24: whatever the verbosity, check returns False for a record without
\* DataId, True for a record whose DataId has no test of its own, and for a
\* 'MONROE.EXP.PING' record True exactly when SequenceNumber >= 0, Rtt > 0,
\* Bytes > 0 and TimeStamp > 0 are all present and hold; it always returns.
C24_ValidatorPolicy ==
    verdict # NoVerdict =>
        /\ verdict.result \in BOOLEAN
        /\ "DataId" \notin DOMAIN entry => verdict.result = FALSE
        /\ ("DataId" \in DOMAIN entry /\ entry.DataId # PingId) =>
               verdict.result = TRUE
        /\ ("DataId" \in DOMAIN entry /\ entry.DataId = PingId) =>
               (verdict.result <=> PingFieldsHold(entry))

\* check has returned False, without a print, on a ping record that lacks a
\* field behind a test that holds
C24_Witness ==
    /\ verdict # NoVerdict
    /\ "DataId" \in DOMAIN entry
    /\ entry.DataId = PingId
    /\ DOMAIN entry = {"DataId", "SequenceNumber", "Bytes"}
    /\ entry.SequenceNumber >= 0
    /\ verbosity = 0
    /\ verdict.result = FALSE

\* ------------------------------------------------------------------ C23
\* the file parses and check returns False on one of its records
RejectedByValidator(f) ==
    /\ parse_json(content[f]).ok
    /\ \E k \in 1..Len(parse_json(content[f]).jsons) :
           ~check(parse_json(content[f]).jsons[k], 0).result

\* C23: handle_file runs the validator on the parsed records before it
\* builds the batch, and a file with a record the validator rejects goes
\* Parsed -> ValidationFailed -> Relocated(failed): no batch is built or sent
\* for it, it is relocated to the failed directory and counts as failed.
C23_RejectedRecordFailsFile ==
    session =>
        \A t \in 1..Len(tasks) :
            (tasks[t].fid # 0 /\ RejectedByValidator(tasks[t].fid)) =>
                /\ tasks[t].pc \notin {"exec", "mvdone"}
                /\ tasks[t].batch = <<>>
                /\ \A k \in 1..Len(sink) : sink[k].fid # tasks[t].fid
                /\ tasks[t].pc = "returned" =>
                       /\ tasks[t].result = 0
                       /\ tasks[t].moved # <<>>
                       /\ Parent(tasks[t].moved) = Resolve(failed_dir)

\* ------------------------------------------------------------------ C25
\* the files the finished pass dispatched a call for
DispatchedFiles == {tasks[t].dfid : t \in 1..Len(tasks)} \ {0}

\* f lies where a successful call of the pass renamed it to
EndedDone(f) ==
    /\ loc[f] # Gone
    /\ \E t \in 1..Len(tasks) :
           /\ tasks[t].pc = "returned"
           /\ tasks[t].result >= 1
           /\ tasks[t].moved = loc[f]

\* C25: with a sink session a call that succeeds returns a count >= 1 and a
\* call returns 0 exactly when it failed, so that for every pass failed_count
\* is the number of dispatched files that did not end in the done state and
\* file_count is the number of files that ended done plus failed_count.
C25_CountsAccountForFiles ==
    session =>
        /\ \A t \in 1..Len(tasks) : tasks[t].pc = "returned" =>
               /\ tasks[t].result = 0 <=>
                      tasks[t].moved =
                          Resolve(failed_dir \o Basename(tasks[t].path))
               /\ tasks[t].result >= 1 <=>
                      tasks[t].moved =
                          Resolve(processed_dir \o Basename(tasks[t].path))
        /\ PassReported =>
               /\ aggregate[3] =
                      Cardinality({f \in DispatchedFiles : ~EndedDone(f)})
               /\ aggregate[1] =
                      Cardinality({f \in DispatchedFiles : EndedDone(f)})
                      + aggregate[3]
====
